---- MODULE Spec2Model ----
(***************************************************************************)
(* LayoutManager (src/src/LayoutManager/LayoutManager.ts) as a state       *)
(* machine.  One manager per container; a manager is named by the          *)
(* container that owns it.  performLayout is synchronous and recursive     *)
(* (bubbling), so one action runs a whole top-level call, ancestors        *)
(* included, and records what it did in `log`.                             *)
(***************************************************************************)
EXTENDS Integers, Sequences, FiniteSets, TLC

(* ------------------------------------------------------------------ *)
(* Bounds                                                              *)
(* ------------------------------------------------------------------ *)
\* number of top-level operations in a behaviour
MaxSteps == 3
\* largest |left|, |top| an operation may produce
MaxCoord == 6
\* longest list of elements handed to groupSVGElements
MaxElements == 3

(* ------------------------------------------------------------------ *)
(* The scene: objects, containers, values                              *)
(* ------------------------------------------------------------------ *)
Leaves == {"x", "y"}
Containers == {"A", "B", "C"}
Objects == Leaves \cup Containers
\* clip paths: k is positioned relative to its container, q absolutely
Clips == {"k", "q"}
absolutePositioned(clip) == clip = "q"

\* JavaScript undefined, for optional strings and optional records
none == "none"
undefined == [undefined |-> TRUE]

Has(rec, key) == key \in DOMAIN rec

\* object spread {...base, ...over}: own properties of `over` win
Spread(base, over) ==
  [k \in DOMAIN base \cup DOMAIN over |->
     IF k \in DOMAIN over THEN over[k] ELSE base[k]]

\* result.key ?? dflt
OrElse(rec, key, dflt) == IF Has(rec, key) THEN rec[key] ELSE dflt

(* ------------------------------------------------------------------ *)
(* Point and matrix arithmetic                                         *)
(* ------------------------------------------------------------------ *)
Point(px, py) == [x |-> px, y |-> py]
zero == Point(0, 0)
add(p, q) == Point(p.x + q.x, p.y + q.y)
subtract(p, q) == Point(p.x - q.x, p.y - q.y)
multiply(p, q) == Point(p.x * q.x, p.y * q.y)
\* the origin factors are kept doubled, so products with them are halved
half(p) == Point(p.x \div 2, p.y \div 2)
eq(p, q) == p.x = q.x /\ p.y = q.y

\* a matrix is <<a, b, c, d, e, f>>
iMatrix == <<1, 0, 0, 1, 0, 0>>

\* Point.transform(t, ignoreOffset)
transform(p, t, ignoreOffset) ==
  Point(t[1] * p.x + t[3] * p.y + (IF ignoreOffset THEN 0 ELSE t[5]),
        t[2] * p.x + t[4] * p.y + (IF ignoreOffset THEN 0 ELSE t[6]))

\* invertTransform(t); the matrices of the model have determinant 1
invertTransform(t) ==
  LET a == 1 \div (t[1] * t[4] - t[2] * t[3])
      r == <<a * t[4], (0 - a) * t[2], (0 - a) * t[3], a * t[1], 0, 0>>
      o == transform(Point(t[5], t[6]), r, TRUE)
  IN  <<r[1], r[2], r[3], r[4], 0 - o.x, 0 - o.y>>

\* cos and sin of the angles of the model (quarter turns)
cos(angle) == CASE angle = 0 -> 1 [] angle = 90 -> 0 [] angle = 180 -> 0 - 1 [] angle = 270 -> 0
sin(angle) == CASE angle = 0 -> 0 [] angle = 90 -> 1 [] angle = 180 -> 0 [] angle = 270 -> 0 - 1

\* twice resolveOrigin: left/top -0.5, center 0, right/bottom 0.5
resolveOrigin2(o) ==
  CASE o \in {"left", "top"} -> 0 - 1
    [] o = "center" -> 0
    [] o \in {"right", "bottom"} -> 1

(* ------------------------------------------------------------------ *)
(* State                                                               *)
(* ------------------------------------------------------------------ *)
VARIABLES
  group,                \* object.group: the container owning the object, or none
  objects,              \* container._objects, in order
  layoutManager,        \* whether container.layoutManager exists
  strategy,             \* manager.strategy
  _firstLayoutDone,     \* manager._firstLayoutDone
  _prevLayoutStrategy,  \* manager._prevLayoutStrategy, or none
  _subscriptions,       \* manager._subscriptions: object -> disposer set id
  listeners,            \* object's registered layout handlers, in registration order
  left, top,            \* object.left / object.top (the relative position)
  width, height,        \* container.width / container.height
  originX, originY,     \* container.originX / originY
  angle,                \* container.angle
  coordsValid,          \* container's cached coordinates match its geometry
  dirty,                \* container.dirty
  log,                  \* what the last top-level operation did, in order
  lastCommit,           \* per container: its last pass, while nothing touched it since
  steps,                \* operations so far
  clipPath,             \* container.clipPath, or none
  hooks,                \* which hook of the container asks for a layout, or none
  elements, options,    \* the arguments of a groupSVGElements call
  returned              \* what that call returned, or pending

vars == <<group, objects, layoutManager, strategy, _firstLayoutDone,
          _prevLayoutStrategy, _subscriptions, listeners, left, top, width,
          height, originX, originY, angle, coordsValid, dirty, log,
          lastCommit, steps, clipPath, hooks, elements, options, returned>>

\* the whole state as one record, threaded through a call
Cur ==
  [group |-> group, objects |-> objects, layoutManager |-> layoutManager,
   strategy |-> strategy, _firstLayoutDone |-> _firstLayoutDone,
   _prevLayoutStrategy |-> _prevLayoutStrategy,
   _subscriptions |-> _subscriptions, listeners |-> listeners,
   left |-> left, top |-> top, width |-> width, height |-> height,
   originX |-> originX, originY |-> originY, angle |-> angle,
   coordsValid |-> coordsValid, dirty |-> dirty, log |-> << >>,
   lastCommit |-> lastCommit, clipPath |-> clipPath, hooks |-> hooks,
   pass |-> 0, passes |-> 0, heap |-> << >>]

Emit(S, e) == [S EXCEPT !.log = Append(@, Spread(e, [pass |-> S.pass]))]

\* a const binding: Do applied to the value of the expression, which is
\* computed once
With(value, Do(_)) == CHOOSE done \in {Do(v) : v \in {value}} : TRUE

\* a context as it reads now: its path is a reference to a list that other
\* contexts may share
Deref(S, context) ==
  IF Has(context, "path") THEN Spread(context, [path |-> S.heap[context.path]])
  ELSE context

(* ------------------------------------------------------------------ *)
(* The container collaborator (FabricObject / Group)                   *)
(* ------------------------------------------------------------------ *)
\* calcRotateMatrix
calcRotateMatrix(S, c) ==
  <<cos(S.angle[c]), sin(S.angle[c]), 0 - sin(S.angle[c]), cos(S.angle[c]), 0, 0>>

\* the vector from the center to the origin point, in the parent's space
originOffset(S, c) ==
  transform(half(multiply(Point(S.width[c], S.height[c]),
                          Point(resolveOrigin2(S.originX[c]),
                                resolveOrigin2(S.originY[c])))),
            calcRotateMatrix(S, c), TRUE)

\* target.getRelativeCenterPoint()
getRelativeCenterPoint(S, c) ==
  subtract(Point(S.left[c], S.top[c]), originOffset(S, c))

\* target.calcOwnMatrix(): rotation about the center
calcOwnMatrix(S, c) ==
  LET r == calcRotateMatrix(S, c)
      ctr == getRelativeCenterPoint(S, c)
  IN  <<r[1], r[2], r[3], r[4], ctr.x, ctr.y>>

\* target.set({ width, height })
setDimensions(S, c, w, h) ==
  [S EXCEPT !.width[c] = w, !.height[c] = h,
            !.coordsValid[c] = @ /\ w = S.width[c] /\ h = S.height[c]]

\* target.set({ left, top })
setLeftTop(S, c, p) ==
  [S EXCEPT !.left[c] = p.x, !.top[c] = p.y,
            !.coordsValid[c] = @ /\ p.x = S.left[c] /\ p.y = S.top[c]]

\* target.setPositionByOrigin(pos, CENTER, CENTER)
setPositionByOrigin(S, c, pos) == setLeftTop(S, c, add(pos, originOffset(S, c)))

\* target.setCoords()
setCoords(S, c) == [S EXCEPT !.coordsValid[c] = TRUE]

\* object.getRelativeXY() / object.setRelativeXY(p)
getRelativeXY(S, o) == Point(S.left[o], S.top[o])
setRelativeXY(S, o, p) ==
  IF o \in Containers THEN setLeftTop(S, o, p)
  ELSE [S EXCEPT !.left[o] = p.x, !.top[o] = p.y]

\* target.getObjects()
getObjects(S, c) == S.objects[c]

\* where an owned child is drawn in the parent's space of its container
absolutePosition(S, c, o) ==
  transform(getRelativeXY(S, o), calcOwnMatrix(S, c), FALSE)

\* the children positions of a container, for the record of a commit
childPositions(S, c) ==
  [i \in 1..Len(S.objects[c]) |->
     [object |-> S.objects[c][i],
      relative |-> getRelativeXY(S, S.objects[c][i]),
      absolute |-> absolutePosition(S, c, S.objects[c][i])]]

(* ------------------------------------------------------------------ *)
(* LayoutManager: subscriptions                                        *)
(* ------------------------------------------------------------------ *)
\* the disposer sets some table or some object still refers to
UsedIds(S) ==
  {S._subscriptions[m][o] : m \in Containers, o \in Objects}
    \cup UNION {{S.listeners[o][i].id : i \in 1..Len(S.listeners[o])} : o \in Objects}

\* a new closure is none of the existing ones
FreshId(S) == CHOOSE n \in 1..(Cardinality(UsedIds(S)) + 1) :
                 n \notin UsedIds(S) /\ \A k \in 1..(n - 1) : k \in UsedIds(S)

\* calling the disposers removes the handlers they registered, if still there
Dispose(seq, id) == SelectSeq(seq, LAMBDA l : l.id # id)

\* unsubscribe(context, object): the table entry itself is kept
unsubscribe(S, m, context, object) ==
  Emit([S EXCEPT !.listeners[object] = Dispose(@, S._subscriptions[m][object])],
       [ev |-> "unsubscribe", manager |-> m, object |-> object,
        disposed |-> S._subscriptions[m][object]])

\* mutant: the handlers are registered without disposing the earlier ones
subscribeOnTop(S, m, context, object) ==
  LET S1 == Emit(S, [ev |-> "unsubscribe", manager |-> m, object |-> object,
                     disposed |-> S._subscriptions[m][object]])
      id == FreshId(S1)
  IN  Emit([S1 EXCEPT
              !.listeners[object] =
                 Append(@, [id |-> id, manager |-> m, target |-> context.target]),
              !._subscriptions[m][object] = id],
           [ev |-> "subscribe", manager |-> m, object |-> object])

\* subscribe(context, object)
subscribe(S, m, context, object) ==
  LET S1 == unsubscribe(S, m, context, object)
      id == FreshId(S1)
  IN  Emit([S1 EXCEPT
              !.listeners[object] =
                 Append(@, [id |-> id, manager |-> m, target |-> context.target]),
              !._subscriptions[m][object] = id],
           [ev |-> "subscribe", manager |-> m, object |-> object])

\* context.targets.forEach((object) => this.subscribe(context, object))
RECURSIVE subscribeEach(_, _, _, _)
subscribeEach(S, m, context, i) ==
  IF i > Len(context.targets) THEN S
  ELSE subscribeEach(subscribe(S, m, context, context.targets[i]), m, context, i + 1)

\* context.targets.forEach((object) => this.unsubscribe(context, object))
RECURSIVE unsubscribeEach(_, _, _, _)
unsubscribeEach(S, m, context, i) ==
  IF i > Len(context.targets) THEN S
  ELSE unsubscribeEach(unsubscribe(S, m, context, context.targets[i]), m, context, i + 1)

(* ------------------------------------------------------------------ *)
(* LayoutManager: one pass                                             *)
(* ------------------------------------------------------------------ *)
\* mutant of the gate: nothing is rejected
rejectsNothing(S, m, context) == FALSE

\* the gate of performLayout
rejects(S, m, context) ==
  ~S._firstLayoutDone[m] /\ context.type # "initialization"

\* strategyChange of the manager's own fields
strategyChange(S, m) ==
  S._prevLayoutStrategy[m] # none /\ S.strategy[m] # S._prevLayoutStrategy[m]

\* the StrictLayoutContext: the manager's fields, then ...context over them
strictContextOf(S, m, context) ==
  Spread([strategy |-> S.strategy[m],
          prevStrategy |-> S._prevLayoutStrategy[m],
          strategyChange |-> strategyChange(S, m)],
         context)

RECURSIVE performLayout(_, _, _, _)
RECURSIVE onAfterLayout(_, _, _, _, _)

\* target.onBeforeLayout / target.onAfterLayout as overridden by the container:
\* the hook of the given stage asks its own manager for an imperative layout,
\* unless the pass it runs in is such a layout already
hook(S, stage, context, choice) ==
  IF S.hooks[context.target] = stage /\ context.type # "imperative"
    THEN performLayout(S, context.target,
                       [type |-> "imperative", target |-> context.target], choice)
  ELSE S

\* mutant: the hook and the event come before the subscription handling
onBeforeLayoutHookFirst(S, m, context, choice) ==
  LET S1 == hook(Emit(S, [ev |-> "onBeforeLayout", target |-> context.target,
                          context |-> Deref(S, context)]),
                 "onBeforeLayout", context, choice)
      S2 == Emit(S1, [ev |-> "layout:before", target |-> context.target])
  IN  IF context.type \in {"initialization", "added"}
        THEN subscribeEach(S2, m, context, 1)
      ELSE IF context.type = "removed"
        THEN unsubscribeEach(S2, m, context, 1)
      ELSE S2

\* onBeforeLayout(context)
onBeforeLayout(S, m, context, choice) ==
  LET S1 == IF context.type \in {"initialization", "added"}
              THEN subscribeEach(S, m, context, 1)
            ELSE IF context.type = "removed"
              THEN unsubscribeEach(S, m, context, 1)
            ELSE S
      S2 == hook(Emit(S1, [ev |-> "onBeforeLayout", target |-> context.target,
                           context |-> Deref(S1, context)]),
                 "onBeforeLayout", context, choice)
  IN  Emit(S2, [ev |-> "layout:before", target |-> context.target])

\* strategy.shouldPerformLayout(context): FitContentLayout lays out on all
\* triggers; the custom strategy is one that declines them all
shouldPerformLayout(strat, context) == strat # "custom"

\* mutant: the matrix is applied with its translation
offsetOfTranslated(S, context, prevCenter, nextCenter, correction, relativeCorrection) ==
  IF context.type = "initialization" /\ OrElse(context, "objectsRelativeToGroup", FALSE)
    THEN zero
  ELSE add(transform(add(subtract(prevCenter, nextCenter), correction),
                     IF context.type = "initialization"
                       THEN iMatrix
                       ELSE invertTransform(calcOwnMatrix(S, context.target)),
                     FALSE),
           relativeCorrection)

\* the offset of getLayoutResult
offsetOf(S, context, prevCenter, nextCenter, correction, relativeCorrection) ==
  IF context.type = "initialization" /\ OrElse(context, "objectsRelativeToGroup", FALSE)
    THEN zero
  ELSE add(transform(add(subtract(prevCenter, nextCenter), correction),
                     IF context.type = "initialization"
                       THEN iMatrix
                       ELSE invertTransform(calcOwnMatrix(S, context.target)),
                     TRUE),
           relativeCorrection)

\* getLayoutResult(context); `choice` is what each container's
\* calcLayoutResult(context, target.getObjects()) answers in this operation
getLayoutResult(S, context, choice) ==
  LET target == context.target
      prevCenter == IF context.type = "initialization"
                      THEN zero ELSE getRelativeCenterPoint(S, target)
      result == choice[target]
      nextCenter == Point(result.centerX, result.centerY)
      correction == Point(OrElse(result, "correctionX", 0),
                          OrElse(result, "correctionY", 0))
      relativeCorrection == Point(OrElse(result, "relativeCorrectionX", 0),
                                  OrElse(result, "relativeCorrectionY", 0))
  IN  IF result = undefined THEN undefined
      ELSE [result |-> result, prevCenter |-> prevCenter, nextCenter |-> nextCenter,
            offset |-> offsetOf(S, context, prevCenter, nextCenter, correction,
                                relativeCorrection)]

\* layoutObject(context, { offset }, object)
layoutObject(S, context, layoutResult, object) ==
  LET S1 == setRelativeXY(S, object, add(getRelativeXY(S, object), layoutResult.offset))
  IN  IF object \in Containers THEN [S1 EXCEPT !.lastCommit[object] = undefined] ELSE S1

\* target.forEachObject(object => object.group === target && layoutObject(...))
RECURSIVE forEachObject(_, _, _, _)
forEachObject(S, context, layoutResult, i) ==
  LET target == context.target
      object == getObjects(S, target)[i]
  IN  IF i > Len(getObjects(S, target)) THEN S
      ELSE forEachObject(IF S.group[object] = target
                           THEN layoutObject(S, context, layoutResult, object)
                           ELSE S,
                         context, layoutResult, i + 1)

\* strategy.shouldLayoutClipPath(context): the custom strategy declines
shouldLayoutClipPath(strat, context) == strat # "custom"

\* layoutObjects(context, layoutResult)
layoutObjects(S, context, layoutResult) ==
  LET S1 == IF context.type # "initialization"
                 \/ ~OrElse(context, "objectsRelativeToGroup", FALSE)
              THEN forEachObject(S, context, layoutResult, 1)
            ELSE S
      clip == S1.clipPath[context.target]
  IN  IF /\ shouldLayoutClipPath(context.strategy, context)
         /\ clip # none
         /\ ~absolutePositioned(clip)
        THEN layoutObject(S1, context, layoutResult, clip)
      ELSE S1

\* the position block of commitLayout
setPosition(S, context, layoutResult) ==
  LET target == context.target
      nextCenter == layoutResult.nextCenter
      origin == add(nextCenter,
                    half(multiply(Point(layoutResult.result.width,
                                        layoutResult.result.height),
                                  Point(resolveOrigin2(S.originX[target]),
                                        resolveOrigin2(S.originY[target])))))
  IN  IF context.type = "initialization" THEN setLeftTop(S, target, origin)
      ELSE IF ~eq(nextCenter, layoutResult.prevCenter)
        THEN setPositionByOrigin(S, target, nextCenter)
      ELSE S

\* commitLayout(context, layoutResult)
commitLayout(S, context, layoutResult) ==
  LET target == context.target
      parent == S.group[target]
  IN  With(setDimensions(S, target, layoutResult.result.width,
                         layoutResult.result.height), LAMBDA S1 :
      With(layoutObjects(S1, context, layoutResult), LAMBDA S2 :
      With(setPosition(S2, context, layoutResult), LAMBDA S3 :
      With(IF context.type # "initialization" THEN setCoords(S3, target) ELSE S3,
           LAMBDA S4 :
      With([S4 EXCEPT !.dirty[target] = TRUE], LAMBDA S5 :
      With(IF parent # none THEN [S5 EXCEPT !.lastCommit[parent] = undefined] ELSE S5,
           LAMBDA S6 :
        Emit([S6 EXCEPT !.lastCommit[target] =
                          [type |-> context.type, result |-> layoutResult.result]],
             [ev |-> "commitLayout", target |-> target, type |-> context.type,
              layoutResult |-> layoutResult, previous |-> S.lastCommit[target],
              before |-> childPositions(S, target),
              after |-> childPositions(S6, target),
              cached |-> S.coordsValid[target],
              coordsValid |-> S6.coordsValid[target],
              dirty |-> S6.dirty[target]])))))))

\* mutant: the synthesized result carries the size the wrong way round
fallbackResultSwapped(S, context) ==
  LET prevCenter == getRelativeCenterPoint(S, context.target)
  IN  [prevCenter |-> prevCenter,
       nextCenter |-> prevCenter,
       offset |-> zero,
       result |-> [centerX |-> prevCenter.x, centerY |-> prevCenter.y,
                   width |-> S.height[context.target],
                   height |-> S.width[context.target]]]

\* the result synthesized when the strategy gave none on the first layout
fallbackResult(S, context) ==
  LET prevCenter == getRelativeCenterPoint(S, context.target)
  IN  [prevCenter |-> prevCenter,
       nextCenter |-> prevCenter,
       offset |-> zero,
       result |-> [centerX |-> prevCenter.x, centerY |-> prevCenter.y,
                   width |-> S.width[context.target],
                   height |-> S.height[context.target]]]

\* the list context.path refers to, a new one when the context has none
pathOf(S, context) ==
  IF Has(context, "path") THEN context.path ELSE Len(S.heap) + 1

\* context.path || (context.path = [])
ensurePath(S, context) ==
  IF Has(context, "path") THEN S ELSE [S EXCEPT !.heap = Append(@, << >>)]

\* mutant: the parent is pushed on the path instead of the target
pushGroup(S, ref, target) == [S EXCEPT !.heap[ref] = Append(@, S.group[target])]

\* path.push(target): the list is changed in place
push(S, ref, target) == [S EXCEPT !.heap[ref] = Append(@, target)]

\* { ...context, target: parent }, the path being the list just pushed on
bubbleContext(context, ref, parent) ==
  Spread(Spread(context, [path |-> ref]), [target |-> parent])

\* mutant: the flag is flipped instead of set
flipFirstLayoutDone(S, m) == [S EXCEPT !._firstLayoutDone[m] = ~@]

\* this._firstLayoutDone = true
markFirstLayoutDone(S, m) == [S EXCEPT !._firstLayoutDone[m] = TRUE]

\* mutant: a pass without a result does not bubble
onAfterLayoutQuiet(S, m, context, layoutResult, choice) ==
  LET target == context.target
  IN  With(hook(Emit(S, [ev |-> "onAfterLayout", target |-> target,
                         result |-> layoutResult]),
                "onAfterLayout", context, choice), LAMBDA S1 :
      With(Emit(S1, [ev |-> "layout", target |-> target, result |-> layoutResult]),
           LAMBDA S2 :
        LET parent == S2.group[target]
            ref == pathOf(S2, context)
            S3 == push(ensurePath(S2, context), ref, target)
        IN  IF parent # none /\ S2.layoutManager[parent] /\ layoutResult # undefined
              THEN performLayout(S3, parent, bubbleContext(context, ref, parent), choice)
            ELSE S2))

\* onAfterLayout(context, layoutResult)
onAfterLayoutAnyGroup(S, m, context, layoutResult, choice) ==
  LET target == context.target
  IN  With(hook(Emit(S, [ev |-> "onAfterLayout", target |-> target,
                         result |-> layoutResult]),
                "onAfterLayout", context, choice), LAMBDA S1 :
      With(Emit(S1, [ev |-> "layout", target |-> target, result |-> layoutResult]),
           LAMBDA S2 :
        LET parent == S2.group[target]
            ref == pathOf(S2, context)
            S3 == push(ensurePath(S2, context), ref, target)
        IN  IF parent # none
              THEN performLayout(S3, parent, bubbleContext(context, ref, parent), choice)
            ELSE S2))

onAfterLayout(S, m, context, layoutResult, choice) ==
  LET target == context.target
  IN  With(hook(Emit(S, [ev |-> "onAfterLayout", target |-> target,
                         result |-> layoutResult]),
                "onAfterLayout", context, choice), LAMBDA S1 :
      With(Emit(S1, [ev |-> "layout", target |-> target, result |-> layoutResult]),
           LAMBDA S2 :
        LET parent == S2.group[target]
            ref == pathOf(S2, context)
            S3 == push(ensurePath(S2, context), ref, target)
        IN  IF parent # none /\ S2.layoutManager[parent]
              THEN performLayout(S3, parent, bubbleContext(context, ref, parent), choice)
            ELSE S2))

\* mutant: _prevLayoutStrategy is recorded before the after-hook runs
performLayoutRecordsEarly(S, m, context, choice) ==
  LET id == S.passes + 1
      S0 == Emit([S EXCEPT !.passes = id, !.pass = id],
                 [ev |-> "performLayout", manager |-> m,
                  context |-> Deref(S, context),
                  caller |-> S.pass,
                  _firstLayoutDone |-> S._firstLayoutDone[m],
                  _prevLayoutStrategy |-> S._prevLayoutStrategy[m],
                  strategy |-> S.strategy[m]])
      strictContext == strictContextOf(S0, m, context)
  IN  IF rejects(S, m, context) THEN [S0 EXCEPT !.pass = S.pass]
      ELSE
      With(onBeforeLayout(S0, m, strictContext, choice), LAMBDA S1 :
      With(getLayoutResult(S1, strictContext, choice), LAMBDA layoutResult :
      With(Emit(S1, [ev |-> "getLayoutResult", target |-> strictContext.target,
                     strategy |-> strictContext.strategy, returns |-> layoutResult]),
           LAMBDA S2 :
      With(IF layoutResult # undefined
             THEN commitLayout(S2, strictContext, layoutResult)
           ELSE [S2 EXCEPT !.lastCommit[m] = undefined], LAMBDA S3 :
      With(IF layoutResult # undefined THEN layoutResult
           ELSE IF ~S3._firstLayoutDone[m]
             THEN fallbackResult(S3, strictContext)
           ELSE undefined, LAMBDA bubblingContext :
      With([markFirstLayoutDone(S3, m)
             EXCEPT !._prevLayoutStrategy[m] = strictContext.strategy], LAMBDA S4 :
      With(onAfterLayout(S4, m, strictContext, bubblingContext, choice), LAMBDA S5 :
      With(Emit([S5 EXCEPT !.pass = id],
                [ev |-> "_prevLayoutStrategy", manager |-> m,
                 strategy |-> strictContext.strategy,
                 context |-> Deref(S5, context)]), LAMBDA S6 :
        [S6 EXCEPT !.pass = S.pass]))))))))

\* performLayout(context) on the manager of container m
performLayout(S, m, context, choice) ==
  LET id == S.passes + 1
      S0 == Emit([S EXCEPT !.passes = id, !.pass = id],
                 [ev |-> "performLayout", manager |-> m,
                  context |-> Deref(S, context),
                  caller |-> S.pass,
                  _firstLayoutDone |-> S._firstLayoutDone[m],
                  _prevLayoutStrategy |-> S._prevLayoutStrategy[m],
                  strategy |-> S.strategy[m]])
      strictContext == strictContextOf(S0, m, context)
  IN  IF rejects(S, m, context) THEN [S0 EXCEPT !.pass = S.pass]
      ELSE
      With(onBeforeLayout(S0, m, strictContext, choice), LAMBDA S1 :
      With(getLayoutResult(S1, strictContext, choice), LAMBDA layoutResult :
      With(Emit(S1, [ev |-> "getLayoutResult", target |-> strictContext.target,
                     strategy |-> strictContext.strategy, returns |-> layoutResult]),
           LAMBDA S2 :
      With(IF layoutResult # undefined
             THEN commitLayout(S2, strictContext, layoutResult)
           ELSE [S2 EXCEPT !.lastCommit[m] = undefined], LAMBDA S3 :
      With(IF layoutResult # undefined THEN layoutResult
           ELSE IF ~S3._firstLayoutDone[m]
             THEN fallbackResult(S3, strictContext)
           ELSE undefined, LAMBDA bubblingContext :
      With(markFirstLayoutDone(S3, m), LAMBDA S4 :
      With(onAfterLayout(S4, m, strictContext, bubblingContext, choice), LAMBDA S5 :
      With(Emit([S5 EXCEPT !.pass = id],
                [ev |-> "_prevLayoutStrategy", manager |-> m,
                 strategy |-> strictContext.strategy,
                 context |-> Deref(S5, context)]), LAMBDA S6 :
        [S6 EXCEPT !._prevLayoutStrategy[m] = strictContext.strategy,
                   !.pass = S.pass]))))))))

(* ------------------------------------------------------------------ *)
(* groupSVGElements                                                    *)
(* ------------------------------------------------------------------ *)
\* a call that has not returned
pending == [pending |-> TRUE]

\* new Group(objects, props): the objects it is given and the properties it is built with
Group(objs, props) == [objects |-> objs, props |-> props]

\* groupSVGElements(elements, options)
groupSVGElements(elems, opts) ==
  IF Len(elems) = 1 THEN [object |-> elems[1]]
  ELSE Group(elems, IF opts = undefined
                      THEN [layoutManager |-> "new LayoutManager"]
                    ELSE Spread([layoutManager |-> "new LayoutManager"], opts))

(* ------------------------------------------------------------------ *)
(* Inputs                                                              *)
(* ------------------------------------------------------------------ *)
\* what a strategy's calcLayoutResult may answer
LayoutResults ==
  { undefined,
    [centerX |-> 0, centerY |-> 0, width |-> 2, height |-> 2],
    [centerX |-> 0, centerY |-> 0, width |-> 4, height |-> 2],
    [centerX |-> 2, centerY |-> 0, width |-> 4, height |-> 2],
    [centerX |-> 2, centerY |-> 0, width |-> 4, height |-> 2,
     correctionX |-> 2, relativeCorrectionY |-> 2] }

\* the answers of the strategies in one operation, one per container:
\* every pass of the operation is answered alike
Answers(results) == {[c \in Containers |-> r] : r \in results}

\* the events subscribe registers handlers for
TModificationEvents == {"moving", "resizing", "rotating", "scaling", "skewing", "changed"}

\* the strategy instances: each manager's default one and one custom instance
defaultStrategy(c) == "fit" \o c
Strategies == {defaultStrategy(c) : c \in Containers} \cup {"custom"}

\* the containers above c, c included
RECURSIVE chain(_, _)
chain(S, c) ==
  IF S.group[c] = none THEN {c} ELSE {c} \cup chain(S, S.group[c])

\* the handlers one subscribe call registered that listen to event e, in order:
\* the contexts they build (trigger, type)
handlersFor(e) ==
  (IF e = "modified"
     THEN <<[trigger |-> "modified", type |-> "object_modified"]>> ELSE << >>)
  \o (IF e \in TModificationEvents
        THEN <<[trigger |-> e, type |-> "object_modifying"]>> ELSE << >>)
  \o (IF e = "changed"
        THEN <<[trigger |-> "text:changed", type |-> "object_modifying"]>> ELSE << >>)

\* object.fire(e): the calls made, in registration order
RECURSIVE callsOf(_, _, _)
callsOf(ls, object, e) ==
  IF ls = << >> THEN << >>
  ELSE LET h == handlersFor(e)
       IN  [i \in 1..Len(h) |->
              [manager |-> Head(ls).manager,
               context |-> Spread(h[i], [e |-> [target |-> object],
                                         target |-> Head(ls).target])]]
           \o callsOf(Tail(ls), object, e)

RECURSIVE fire(_, _, _, _)
fire(S, calls, i, choice) ==
  IF i > Len(calls) THEN S
  ELSE fire(performLayout(S, calls[i].manager, calls[i].context, choice),
            calls, i + 1, choice)

(* ------------------------------------------------------------------ *)
(* Initial states                                                      *)
(* ------------------------------------------------------------------ *)
\* everything but the scene graph, the managers present and A's angle
InitRest ==
  /\ objects = [c \in Containers |->
                  SelectSeq(<<"x", "y", "A", "B", "C">>, LAMBDA o : group[o] = c)]
  /\ strategy = [c \in Containers |-> defaultStrategy(c)]
  /\ _firstLayoutDone = [c \in Containers |-> FALSE]
  /\ _prevLayoutStrategy = [c \in Containers |-> none]
  /\ _subscriptions = [c \in Containers |-> [o \in Objects |-> 0]]
  /\ listeners = [o \in Objects |-> << >>]
  /\ left = [o \in Objects \cup Clips |->
               IF o = "x" THEN 0 - 2 ELSE IF o = "y" THEN 2 ELSE 0]
  /\ top = [o \in Objects \cup Clips |-> 0]
  /\ width = [c \in Containers |-> IF c = "A" THEN 0 ELSE IF c = "B" THEN 2 ELSE 4]
  /\ height = [c \in Containers |-> IF c = "A" THEN 0 ELSE IF c = "B" THEN 4 ELSE 2]
  /\ originX = [c \in Containers |-> IF c = "B" THEN "center" ELSE "left"]
  /\ originY = [c \in Containers |-> IF c = "B" THEN "center" ELSE "top"]
  /\ coordsValid = [c \in Containers |-> FALSE]
  /\ dirty = [c \in Containers |-> FALSE]
  /\ log = << >>
  /\ lastCommit = [c \in Containers |-> undefined]
  /\ steps = 0

\* the hooks of the containers ask for no layout
NoHooks == hooks = [c \in Containers |-> none]

\* no groupSVGElements call in the scene
NoCall ==
  /\ elements = << >>
  /\ options = undefined
  /\ returned = pending

\* x in A, B in C, A in B or on its own; C with or without a layout manager
Init ==
  /\ group \in {[x |-> "A", y |-> none, A |-> p, B |-> "C", C |-> none] : p \in {"B", none}}
  /\ layoutManager \in {f \in [Containers -> BOOLEAN] : f["A"] /\ f["B"]}
  /\ angle = [c \in Containers |-> IF c = "A" THEN 0 ELSE 90]
  /\ clipPath = [A |-> none, B |-> "k", C |-> "q"]
  /\ NoHooks
  /\ InitRest
  /\ NoCall

\* x and y in A, a top-level container, rotated or not
InitGeom ==
  /\ group = [x |-> "A", y |-> "A", A |-> none, B |-> none, C |-> none]
  /\ layoutManager = [c \in Containers |-> TRUE]
  /\ angle \in {f \in [Containers -> {0, 90}] : f["B"] = 90 /\ f["C"] = 90}
  /\ clipPath = [A |-> "k", B |-> none, C |-> none]
  /\ NoHooks
  /\ InitRest
  /\ NoCall

\* x in A, A in B; one of A's hooks may ask for a layout
InitCalls ==
  /\ group = [x |-> "A", y |-> none, A |-> "B", B |-> none, C |-> none]
  /\ layoutManager = [c \in Containers |-> TRUE]
  /\ angle = [c \in Containers |-> 0]
  /\ clipPath = [c \in Containers |-> none]
  /\ hooks \in {[A |-> h, B |-> none, C |-> none] :
                  h \in {none, "onBeforeLayout", "onAfterLayout"}}
  /\ InitRest
  /\ NoCall

\* the lists of at most n objects
RECURSIVE Lists(_)
Lists(n) ==
  IF n = 0 THEN {<< >>}
  ELSE Lists(n - 1) \cup {Append(l, o) : l \in {q \in Lists(n - 1) : Len(q) = n - 1},
                                          o \in Objects}

\* the options a caller may pass: none, some property, a layout manager of its own
GroupProps == {undefined, [angle |-> 90], [layoutManager |-> "custom"]}

\* a call of groupSVGElements about to be made, no container laid out
InitSVG ==
  /\ group = [o \in Objects |-> none]
  /\ layoutManager = [c \in Containers |-> TRUE]
  /\ angle = [c \in Containers |-> 0]
  /\ clipPath = [c \in Containers |-> none]
  /\ NoHooks
  /\ InitRest
  /\ elements \in Lists(MaxElements)
  /\ options \in GroupProps
  /\ returned = pending

(* ------------------------------------------------------------------ *)
(* Operations                                                          *)
(* ------------------------------------------------------------------ *)
InBounds(S) ==
  \A o \in Objects : /\ S.left[o] \in (0 - MaxCoord)..MaxCoord
                     /\ S.top[o] \in (0 - MaxCoord)..MaxCoord

\* the state after an operation
Becomes(S) ==
    /\ steps < MaxSteps
    /\ InBounds(S)
    /\ steps' = steps + 1
    /\ group' = S.group
    /\ objects' = S.objects
    /\ layoutManager' = S.layoutManager
    /\ strategy' = S.strategy
    /\ _firstLayoutDone' = S._firstLayoutDone
    /\ _prevLayoutStrategy' = S._prevLayoutStrategy
    /\ _subscriptions' = S._subscriptions
    /\ listeners' = S.listeners
    /\ left' = S.left
    /\ top' = S.top
    /\ width' = S.width
    /\ height' = S.height
    /\ originX' = S.originX
    /\ originY' = S.originY
    /\ angle' = S.angle
    /\ coordsValid' = S.coordsValid
    /\ dirty' = S.dirty
    /\ log' = S.log
    /\ lastCommit' = S.lastCommit
    /\ UNCHANGED <<clipPath, hooks, elements, options, returned>>

\* the container's initialization layout (Group constructor / fromObject)
Initialize(c, relative, results) ==
  /\ layoutManager[c]
  /\ \E choice \in Answers(results) :
       Becomes(performLayout(Cur, c,
                 IF relative
                   THEN [type |-> "initialization", target |-> c, targets |-> objects[c],
                         objectsRelativeToGroup |-> TRUE]
                   ELSE [type |-> "initialization", target |-> c, targets |-> objects[c]],
                 choice))

\* container.add(object)
Add(c, o, results) ==
  /\ layoutManager[c]
  /\ group[o] = none
  /\ o \notin chain(Cur, c)
  /\ \E choice \in Answers(results) :
       Becomes(performLayout([Cur EXCEPT !.group[o] = c, !.objects[c] = Append(@, o),
                                         !.lastCommit[c] = undefined],
                             c, [type |-> "added", target |-> c, targets |-> <<o>>],
                             choice))

\* container.remove(object)
Remove(c, o, results) ==
  /\ layoutManager[c]
  /\ group[o] = c
  /\ \E choice \in Answers(results) :
       Becomes(performLayout([Cur EXCEPT !.group[o] = none,
                                         !.objects[c] = SelectSeq(@, LAMBDA q : q # o),
                                         !.lastCommit[c] = undefined],
                             c, [type |-> "removed", target |-> c, targets |-> <<o>>],
                             choice))

\* object.fire(e) for a trigger event: every handler registered for it runs
Trigger(o, e, results) ==
  /\ listeners[o] # << >>
  /\ \E choice \in Answers(results) :
       Becomes(fire(Cur, callsOf(listeners[o], o, e), 1, choice))

\* a caller's own context, with a path list of its own, used for two calls:
\* const context = { type: 'imperative', target: c, path: [] };
\* manager.performLayout(context); manager.performLayout(context)
PerformTwice(c, results) ==
  /\ layoutManager[c]
  /\ \E choice \in Answers(results) :
       LET context == [type |-> "imperative", target |-> c, path |-> 1]
           S0 == [Cur EXCEPT !.heap = << << >> >>]
       IN  \E S1 \in {performLayout(S0, c, context, choice)} :
             Becomes(performLayout(S1, c, context, choice))

\* manager.strategy = s
SetStrategy(c, s) ==
  /\ layoutManager[c]
  /\ s \in {defaultStrategy(c), "custom"}
  /\ s # strategy[c]
  /\ Becomes([Cur EXCEPT !.strategy[c] = s])

\* returned = groupSVGElements(elements, options)
GroupSVGElements ==
  /\ returned = pending
  /\ returned' = groupSVGElements(elements, options)
  /\ UNCHANGED <<group, objects, layoutManager, strategy, _firstLayoutDone,
                 _prevLayoutStrategy, _subscriptions, listeners, left, top, width,
                 height, originX, originY, angle, coordsValid, dirty, log,
                 lastCommit, steps, clipPath, hooks, elements, options>>

(* ------------------------------------------------------------------ *)
(* Specifications                                                      *)
(* ------------------------------------------------------------------ *)
\* the answers in the nested scene: none, or one result
SomeResult == {undefined, [centerX |-> 2, centerY |-> 0, width |-> 4, height |-> 2]}

\* the nested scene: lifecycle, subscriptions, bubbling
Next ==
  \/ \E c \in Containers : Initialize(c, FALSE, SomeResult)
  \/ \E c \in {"A", "B"}, o \in Leaves \cup {"A"} : Add(c, o, SomeResult)
  \/ \E c \in {"A", "B"}, o \in Leaves \cup {"A"} : Remove(c, o, SomeResult)
  \/ \E o \in Leaves, e \in {"modified", "changed"} : Trigger(o, e, SomeResult)
  \/ \E c \in Containers, s \in Strategies : SetStrategy(c, s)

Spec == Init /\ [][Next]_vars

\* one container and its two children: geometry
NextGeom ==
  \/ \E relative \in BOOLEAN : Initialize("A", relative, LayoutResults)
  \/ Remove("A", "y", LayoutResults)
  \/ Trigger("x", "modified", LayoutResults)

SpecGeom == InitGeom /\ [][NextGeom]_vars

\* callers' own contexts and hooks that ask for a layout
NextCalls ==
  \/ Initialize("A", FALSE, SomeResult)
  \/ Trigger("x", "modified", SomeResult)
  \/ \E s \in Strategies : SetStrategy("A", s)
  \/ \E c \in {"A", "B"} : PerformTwice(c, SomeResult)

SpecCalls == InitCalls /\ [][NextCalls]_vars

\* one call of groupSVGElements
NextSVG == GroupSVGElements

SpecSVG == InitSVG /\ [][NextSVG]_vars

(* ------------------------------------------------------------------ *)
(* Reading the log                                                     *)
(* ------------------------------------------------------------------ *)
\* the calls of performLayout in a log: the positions of their first event
Entries(l) == {i \in 1..Len(l) : l[i].ev = "performLayout"}

\* the events of pass p, in order
EventsOf(l, p) == SelectSeq(l, LAMBDA e : e.pass = p)

\* the position in l of pass p's event of the given kind, 0 when it has none
IndexOf(l, p, kind) ==
  IF \E j \in 1..Len(l) : l[j].pass = p /\ l[j].ev = kind
    THEN CHOOSE j \in 1..Len(l) : l[j].pass = p /\ l[j].ev = kind
  ELSE 0

\* pass p went past the gate: its hooks ran
Passed(l, p) == IndexOf(l, p, "onAfterLayout") # 0

\* a call made before the manager's first layout with another type than initialization
Early(e) == ~e._firstLayoutDone /\ e.context.type # "initialization"

\* the calls pass p made (bubbling)
Callees(l, p) == {j \in Entries(l) : l[j].caller = p}

\* the handlers manager m has on the objects
ListenersOf(ls, m) ==
  UNION {{<<o, ls[o][i].id>> : i \in {k \in 1..Len(ls[o]) : ls[o][k].manager = m}} :
           o \in Objects}

(* ------------------------------------------------------------------ *)
(* Claims                                                              *)
(* ------------------------------------------------------------------ *)
\* everything a layout pass can write
layoutState == <<strategy, _firstLayoutDone, _prevLayoutStrategy, _subscriptions,
                 listeners, left, top, width, height, coordsValid, dirty>>

\* C1: a performLayout call with a type other than 'initialization', made
\* before the manager's first layout, does nothing: no hook, no event, no
\* subscription or disposal, no call to an ancestor's manager, and the
\* manager's flags and table, the container's size and position and its
\* children's positions stay as they were.
EarlyRequestIsDropped ==
  [][ /\ \A i \in Entries(log') :
           Early(log'[i]) =>
             LET p == log'[i].pass
                 m == log'[i].manager
             IN  /\ EventsOf(log', p) = <<log'[i]>>
                 /\ Callees(log', p) = {}
                 /\ _firstLayoutDone'[m] = _firstLayoutDone[m]
                 /\ _prevLayoutStrategy'[m] = _prevLayoutStrategy[m]
                 /\ _subscriptions'[m] = _subscriptions[m]
                 /\ ListenersOf(listeners', m) = ListenersOf(listeners, m)
                 /\ width'[m] = width[m]
                 /\ height'[m] = height[m]
                 /\ coordsValid'[m] = coordsValid[m]
                 /\ dirty'[m] = dirty[m]
      /\ (log' # << >> /\ \A j \in 1..Len(log') : j \in Entries(log') /\ Early(log'[j]))
           => UNCHANGED layoutState
    ]_vars

\* C1 witness: an early request was made, on a container that has children
EarlyRequestSeen ==
  \E i \in Entries(log) : Early(log[i]) /\ objects[log[i].manager] # << >>

\* the bubbled case of C1 is reached too: an early request made by a
\* descendant's pass
EarlyRequestBubbled ==
  \E i \in Entries(log) : Early(log[i]) /\ log[i].caller # 0

\* C2: _firstLayoutDone never goes back to false; it becomes true only in a
\* pass of type 'initialization', at most once per manager; a pass of another
\* type that runs on a manager comes after an initialization pass on it; and a
\* later initialization call leaves the flag true.
FirstLayoutDoneOnce ==
  [][ \A m \in Containers :
        LET ran == {i \in Entries(log') :
                      log'[i].manager = m /\ Passed(log', log'[i].pass)}
            first == {i \in ran : ~log'[i]._firstLayoutDone}
        IN  /\ _firstLayoutDone[m] => _firstLayoutDone'[m]
            /\ _firstLayoutDone'[m] # _firstLayoutDone[m] => first # {}
            /\ \A i \in first : log'[i].context.type = "initialization"
            /\ Cardinality(first) <= (IF _firstLayoutDone[m] THEN 0 ELSE 1)
            /\ \A i \in ran :
                 log'[i].context.type # "initialization" =>
                   \/ _firstLayoutDone[m]
                   \/ \E j \in first : j < i
            /\ ran # {} => _firstLayoutDone'[m]
    ]_vars

\* C2 witness: an initialization call on a manager whose first layout was done
\* already, and the flag still true
InitializedTwice ==
  \E i \in Entries(log) :
    /\ log[i].context.type = "initialization"
    /\ log[i]._firstLayoutDone
    /\ Passed(log, log[i].pass)
    /\ _firstLayoutDone[log[i].manager]

\* the object whose event started the operation
FiredOn(l) == l[1].context.e.target

\* the log is that of a trigger event fired by a child
IsTrigger(l) == l # << >> /\ Has(l[1].context, "trigger")

\* C3: one trigger event fired by a subscribed child gives exactly one pass
\* on the owning container and on each ancestor that has a layout manager, and
\* an ancestor's pass starts after the commit and the after-hook of the pass
\* below it.
OnePassPerContainer ==
  IsTrigger(log) =>
    /\ \A c \in {a \in chain(Cur, group[FiredOn(log)]) : layoutManager[a]} :
         Cardinality({i \in Entries(log) : log[i].manager = c}) = 1
    /\ \A j \in Entries(log) :
         log[j].caller # 0 =>
           /\ IndexOf(log, log[j].caller, "layout") \in 1..(j - 1)
           /\ IndexOf(log, log[j].caller, "commitLayout") < j

\* C4: a pass on A that ran its commit and after-hook makes exactly one call,
\* to the manager of A's group when that group has a layout manager, with the
\* group as target and a path that is the pass's own path (empty when it had
\* none) followed by A; otherwise it calls no manager.
BubblesOnceToParent ==
  \A i \in Entries(log) :
    LET p == log[i].pass
        A == log[i].context.target
        parent == group[A]
    IN  Passed(log, p) =>
          IF parent # none /\ layoutManager[parent]
            THEN /\ Cardinality(Callees(log, p)) = 1
                 /\ \A j \in Callees(log, p) :
                      /\ log[j].manager = parent
                      /\ log[j].context.target = parent
                      /\ Has(log[j].context, "path")
                      /\ log[j].context.path =
                           Append(OrElse(log[i].context, "path", << >>), A)
                      /\ IndexOf(log, p, "layout") \in 1..(j - 1)
                      /\ IndexOf(log, p, "onAfterLayout") \in 1..(j - 1)
                      /\ IndexOf(log, p, "commitLayout") < j
          ELSE Callees(log, p) = {}

\* C4 witness: C's manager is called with the path A, B by a pass on B that
\* committed a result
BubbledTwice ==
  /\ \E i \in Entries(log) :
       /\ log[i].manager = "C"
       /\ log[i].caller # 0
       /\ Has(log[i].context, "path")
       /\ log[i].context.path = <<"A", "B">>
       /\ Passed(log, log[i].pass)
       /\ IndexOf(log, log[i].caller, "commitLayout") # 0

\* C4 witness of the other branch: the group of the pass's container has no
\* layout manager
BubbleStopsWithoutManager ==
  \E i \in Entries(log) :
    /\ Passed(log, log[i].pass)
    /\ group[log[i].manager] # none
    /\ ~layoutManager[group[log[i].manager]]

\* C5: a manager has at most one set of handlers on an object, the one its
\* table names; subscribe disposes what the table named before it registers;
\* and after a 'removed' pass the manager has no handler left on the removed
\* targets.
OneSubscriptionPerChild ==
  /\ \A m \in Containers, o \in Objects :
       /\ Cardinality({i \in 1..Len(listeners[o]) : listeners[o][i].manager = m}) <= 1
       /\ \A i \in 1..Len(listeners[o]) :
            listeners[o][i].manager = m => listeners[o][i].id = _subscriptions[m][o]
  /\ \A j \in 1..Len(log) :
       log[j].ev = "subscribe" =>
         /\ j > 1
         /\ log[j - 1].ev = "unsubscribe"
         /\ log[j - 1].pass = log[j].pass
         /\ log[j - 1].object = log[j].object
  /\ \A i \in Entries(log) :
       (Passed(log, log[i].pass) /\ log[i].context.type = "removed") =>
         \A k \in 1..Len(log[i].context.targets) :
           \A n \in 1..Len(listeners[log[i].context.targets[k]]) :
             listeners[log[i].context.targets[k]][n].manager # log[i].manager

\* C5 witness: a child is added again after it was removed, and its earlier
\* table entry is disposed before the new handlers are registered
SubscribedAgain ==
  \E j \in 2..Len(log) :
    /\ log[j].ev = "subscribe"
    /\ log[j - 1].disposed # 0
    /\ log[IndexOf(log, log[j].pass, "performLayout")].context.type = "added"
    /\ Cardinality(ListenersOf(listeners, log[j].manager)) >= 1

\* C5 witness of the second half: a 'removed' pass ran on a manager that had
\* handlers on the target
RemovedUnsubscribed ==
  \E j \in 1..Len(log) :
    /\ log[j].ev = "unsubscribe"
    /\ log[j].disposed # 0
    /\ log[IndexOf(log, log[j].pass, "performLayout")].context.type = "removed"

\* the result the strategy returned in pass p
ReturnOf(l, p) == l[IndexOf(l, p, "getLayoutResult")].returns

\* C6: when the strategy gives no result on the first layout of a container,
\* the after-hook and the 'layout' event get a result made of the container's
\* current center (as prevCenter and nextCenter), a zero offset and the
\* container's current width and height, and the pass commits nothing: the
\* container keeps its size, its children keep their relative positions, and
\* the container keeps its position unless its own group commits a layout.
FallbackOnFirstLayout ==
  [][ \A i \in Entries(log') :
        LET p == log'[i].pass
            m == log'[i].manager
            center == getRelativeCenterPoint(Cur, m)
            fallback == [prevCenter |-> center, nextCenter |-> center,
                         offset |-> Point(0, 0),
                         result |-> [centerX |-> center.x, centerY |-> center.y,
                                     width |-> width[m], height |-> height[m]]]
        IN  (Passed(log', p) /\ ~log'[i]._firstLayoutDone
               /\ ReturnOf(log', p) = undefined) =>
              /\ log'[IndexOf(log', p, "onAfterLayout")].result = fallback
              /\ log'[IndexOf(log', p, "layout")].result = fallback
              /\ IndexOf(log', p, "commitLayout") = 0
              /\ width'[m] = width[m] /\ height'[m] = height[m]
              /\ dirty'[m] = dirty[m]
              /\ \A k \in 1..Len(objects'[m]) :
                   /\ left'[objects'[m][k]] = left[objects'[m][k]]
                   /\ top'[objects'[m][k]] = top[objects'[m][k]]
              /\ (\A j \in 1..Len(log') :
                    log'[j].ev = "commitLayout" => log'[j].target # group[m])
                    => left'[m] = left[m] /\ top'[m] = top[m]
    ]_vars

\* C6 witness: a first layout without a result, on a container with a size
\* and with children
FallbackSeen ==
  \E i \in Entries(log) :
    /\ Passed(log, log[i].pass)
    /\ ~log[i]._firstLayoutDone
    /\ ReturnOf(log, log[i].pass) = undefined
    /\ width[log[i].manager] # height[log[i].manager]
    /\ objects[log[i].manager] # << >>
    /\ log[IndexOf(log, log[i].pass, "layout")].result.result.width = width[log[i].manager]

\* C7: in every pass strategyChange is true exactly when the manager has a
\* recorded previous strategy and that strategy is not the manager's current
\* one.
StrategyChangeIsTheManagersOwn ==
  \A j \in 1..Len(log) :
    log[j].ev = "onBeforeLayout" =>
      LET entry == log[IndexOf(log, log[j].pass, "performLayout")]
      IN  log[j].context.strategyChange =
            (entry._prevLayoutStrategy # none
               /\ entry._prevLayoutStrategy # entry.strategy)

\* a commit whose result carries no correction
Uncorrected(r) ==
  /\ OrElse(r, "correctionX", 0) = 0 /\ OrElse(r, "correctionY", 0) = 0
  /\ OrElse(r, "relativeCorrectionX", 0) = 0 /\ OrElse(r, "relativeCorrectionY", 0) = 0

\* C8: when a pass commits the same result as the pass before it on the same
\* container, with no child added, removed or moved in between, it moves no
\* child: the relative positions after it are those before it. (Taken in the
\* most favourable case: neither pass is the initialization, no corrections.)
SameResultMovesNoChild ==
  \A j \in 1..Len(log) :
    (/\ log[j].ev = "commitLayout"
     /\ log[j].type # "initialization"
     /\ log[j].previous # undefined
     /\ log[j].previous.type # "initialization"
     /\ log[j].previous.result = log[j].layoutResult.result
     /\ Uncorrected(log[j].layoutResult.result)) =>
      \A k \in 1..Len(log[j].before) :
        log[j].after[k].relative = log[j].before[k].relative

\* C9: a committed pass that is not the initialization leaves every owned
\* child where it was in the parent's space of the container. (Taken without
\* corrections.)
CommitKeepsChildrenInPlace ==
  \A j \in 1..Len(log) :
    (/\ log[j].ev = "commitLayout"
     /\ log[j].type # "initialization"
     /\ Uncorrected(log[j].layoutResult.result)) =>
      \A k \in 1..Len(log[j].before) :
        log[j].after[k].absolute = log[j].before[k].absolute

\* the part of C9 that holds: when the commit moves the center the children
\* stay in place
MovedCenterKeepsChildrenInPlace ==
  \A j \in 1..Len(log) :
    (/\ log[j].ev = "commitLayout"
     /\ log[j].type # "initialization"
     /\ Uncorrected(log[j].layoutResult.result)
     /\ ~eq(log[j].layoutResult.nextCenter, log[j].layoutResult.prevCenter)) =>
      \A k \in 1..Len(log[j].before) :
        log[j].after[k].absolute = log[j].before[k].absolute

\* the kinds of the events of pass p, in order
Kinds(l, p) == [k \in 1..Len(EventsOf(l, p)) |-> EventsOf(l, p)[k].ev]

\* the subscription events a pass of this context makes, in order
RECURSIVE SubscriptionKinds(_, _)
SubscriptionKinds(context, i) ==
  IF ~Has(context, "targets") \/ context.type \notin {"initialization", "added", "removed"}
    THEN << >>
  ELSE IF i > Len(context.targets) THEN << >>
  ELSE (IF context.type = "removed" THEN <<"unsubscribe">>
        ELSE <<"unsubscribe", "subscribe">>)
       \o SubscriptionKinds(context, i + 1)

\* C10: a call either is dropped at the gate, and then does nothing, or runs
\* each stage once in this order: subscription handling, pre-layout hook,
\* 'layout:before', strategy computation, commit exactly when there is a
\* computed result, post-layout hook, 'layout', bubbling; all of it, the
\* bubbled passes included, before the call returns.
StagesInOrder ==
  \A i \in Entries(log) :
    LET p == log[i].pass
        last == IndexOf(log, p, "_prevLayoutStrategy")
    IN  IF Early(log[i])
          THEN Kinds(log, p) = <<"performLayout">> /\ Callees(log, p) = {}
        ELSE /\ Kinds(log, p) =
                  <<"performLayout">> \o SubscriptionKinds(log[i].context, 1)
                  \o <<"onBeforeLayout", "layout:before", "getLayoutResult">>
                  \o (IF ReturnOf(log, p) # undefined
                        THEN <<"commitLayout">> ELSE << >>)
                  \o <<"onAfterLayout", "layout", "_prevLayoutStrategy">>
             /\ \A k \in 1..Len(log) :
                  IF k \in i..last THEN log[k].pass >= p ELSE log[k].pass # p
             /\ \A k \in (i + 1)..(IndexOf(log, p, "layout")) : log[k].pass = p
             /\ Cardinality(Callees(log, p)) =
                  (IF group[log[i].manager] # none /\ layoutManager[group[log[i].manager]]
                     THEN 1 ELSE 0)
             /\ \A j \in Callees(log, p) :
                  /\ j = IndexOf(log, p, "layout") + 1
                  /\ IndexOf(log, log[j].pass, "_prevLayoutStrategy") \in {0, last - 1}

\* C10 witness: a pass that subscribed, committed and bubbled to a pass that
\* ran its stages too
FullPassSeen ==
  \E i \in Entries(log) :
    /\ IndexOf(log, log[i].pass, "subscribe") # 0
    /\ IndexOf(log, log[i].pass, "commitLayout") # 0
    /\ \E j \in Callees(log, log[i].pass) : Passed(log, log[j].pass)

\* C11: groupSVGElements returns a new Group of the elements, with a default
\* LayoutManager unless the options name one, when it is given more than one
\* element, and in every other case, the empty list included, returns without
\* creating a Group.
GroupsOnlySeveralElements ==
  returned # pending =>
    IF Len(elements) > 1
      THEN /\ Has(returned, "objects")
           /\ returned.objects = elements
           /\ returned.props.layoutManager =
                OrElse(options, "layoutManager", "new LayoutManager")
    ELSE ~Has(returned, "objects")

\* the part of C11 that holds: a lone element comes back unwrapped, several
\* elements come back in a new Group
GroupsSeveralElements ==
  returned # pending =>
    /\ Len(elements) = 1 => returned = [object |-> elements[1]]
    /\ Len(elements) > 1 => Has(returned, "objects") /\ returned.objects = elements

\* C12: in every pass, bubbled or not, the strict context carries the
\* strategy of the manager running the pass and the prevStrategy and
\* strategyChange of that manager's own record; that strategy computes the
\* result, and it is the one recorded as the manager's _prevLayoutStrategy.
StrictContextIsTheManagersOwn ==
  \A i \in Entries(log) :
    LET p == log[i].pass
        own == log[i].strategy
        prev == log[i]._prevLayoutStrategy
    IN  Passed(log, p) =>
          /\ log[IndexOf(log, p, "onBeforeLayout")].context.strategy = own
          /\ log[IndexOf(log, p, "onBeforeLayout")].context.prevStrategy = prev
          /\ log[IndexOf(log, p, "onBeforeLayout")].context.strategyChange =
               (prev # none /\ prev # own)
          /\ log[IndexOf(log, p, "getLayoutResult")].strategy = own
          /\ log[IndexOf(log, p, "_prevLayoutStrategy")].strategy = own
          /\ _prevLayoutStrategy[log[i].manager] \in {own} \cup
               {log[j].strategy : j \in {k \in Entries(log) :
                                           k > i /\ log[k].manager = log[i].manager}}

\* the part of C12 that holds: a pass that was not reached by bubbling uses
\* its manager's own strategy and record
DirectPassUsesOwnStrategy ==
  \A i \in Entries(log) :
    (Passed(log, log[i].pass) /\ log[i].caller = 0) =>
      /\ log[IndexOf(log, log[i].pass, "onBeforeLayout")].context.strategy = log[i].strategy
      /\ log[IndexOf(log, log[i].pass, "onBeforeLayout")].context.prevStrategy =
           log[i]._prevLayoutStrategy
      /\ log[IndexOf(log, log[i].pass, "getLayoutResult")].strategy = log[i].strategy

\* C13: an object that has an entry in a manager's subscription table, or
\* handlers registered by that manager, is a child the manager's container
\* owns now.
SubscribedAreOwnedChildren ==
  \A m \in Containers, o \in Objects :
    (\/ _subscriptions[m][o] # 0
     \/ \E i \in 1..Len(listeners[o]) : listeners[o][i].manager = m) =>
      group[o] = m

\* C14: in a pass whose strategy's shouldPerformLayout answers false, the
\* strategy is not asked for a result and nothing is committed; the pass has
\* the fallback result on the first layout and none otherwise.
DeclinedMeansNoCommit ==
  \A i \in Entries(log) :
    LET p == log[i].pass
        before == log[IndexOf(log, p, "onBeforeLayout")]
    IN  (Passed(log, p)
           /\ ~shouldPerformLayout(before.context.strategy, before.context)) =>
          /\ ReturnOf(log, p) = undefined
          /\ IndexOf(log, p, "commitLayout") = 0
          /\ log[i]._firstLayoutDone =>
               log[IndexOf(log, p, "onAfterLayout")].result = undefined

\* C15: a pass after the first layout whose strategy gives no result commits
\* nothing (size, children positions, cached coordinates and dirty flag of the
\* container are as before, and its position too unless its own group
\* commits), runs the after-hook and the 'layout' event without a result,
\* leaves _firstLayoutDone true, records _prevLayoutStrategy and bubbles to
\* the parent's manager.
NoResultCommitsNothing ==
  [][ \A i \in Entries(log') :
        LET p == log'[i].pass
            m == log'[i].manager
        IN  (Passed(log', p) /\ log'[i]._firstLayoutDone
               /\ ReturnOf(log', p) = undefined) =>
              /\ IndexOf(log', p, "commitLayout") = 0
              /\ log'[IndexOf(log', p, "onAfterLayout")].result = undefined
              /\ log'[IndexOf(log', p, "layout")].result = undefined
              /\ _firstLayoutDone'[m]
              /\ IndexOf(log', p, "_prevLayoutStrategy") # 0
              /\ log'[IndexOf(log', p, "_prevLayoutStrategy")].strategy =
                   log'[IndexOf(log', p, "onBeforeLayout")].context.strategy
              /\ _prevLayoutStrategy'[m] # none
              /\ (group'[m] # none /\ layoutManager'[group'[m]]) =>
                   \E j \in Callees(log', p) : log'[j].manager = group'[m]
              /\ (\A j \in 1..Len(log') :
                    log'[j].ev = "commitLayout" => log'[j].target # m) =>
                   /\ width'[m] = width[m] /\ height'[m] = height[m]
                   /\ coordsValid'[m] = coordsValid[m] /\ dirty'[m] = dirty[m]
                   /\ \A k \in 1..Len(objects'[m]) :
                        /\ left'[objects'[m][k]] = left[objects'[m][k]]
                        /\ top'[objects'[m][k]] = top[objects'[m][k]]
              /\ (\A j \in 1..Len(log') :
                    log'[j].ev = "commitLayout" =>
                      log'[j].target \notin {m, group'[m]}) =>
                   left'[m] = left[m] /\ top'[m] = top[m]
    ]_vars

\* C15 witness: such a pass on a container that was given a size by an
\* earlier commit, bubbling to a parent's manager that ran its pass too
NoResultPassSeen ==
  \E i \in Entries(log) :
    /\ Passed(log, log[i].pass)
    /\ log[i]._firstLayoutDone
    /\ ReturnOf(log, log[i].pass) = undefined
    /\ dirty[log[i].manager]
    /\ objects[log[i].manager] # << >>
    /\ \E j \in Callees(log, log[i].pass) : Passed(log, log[j].pass)

\* C16: a commit leaves the container with cached coordinates that match its
\* new geometry, and dirty, before the after-hook, the 'layout' event or an
\* ancestor's pass runs. (Taken for a container whose cached coordinates were
\* valid when the commit began.)
CommitRefreshesCoords ==
  \A j \in 1..Len(log) :
    (log[j].ev = "commitLayout" /\ log[j].cached) =>
      log[j].coordsValid /\ log[j].dirty

\* the part of C16 that holds: a commit of another type than initialization
\* calls setCoords and marks the container dirty, and every commit marks it
\* dirty
LaterCommitRefreshesCoords ==
  \A j \in 1..Len(log) :
    log[j].ev = "commitLayout" =>
      /\ log[j].dirty
      /\ log[j].type # "initialization" => log[j].coordsValid

\* a matrix without its translation
Linear(t) == <<t[1], t[2], t[3], t[4], 0, 0>>

\* C17: the offset of the first pass of an operation is
\* transform(prevCenter - nextCenter + correction, M) + relativeCorrection,
\* with prevCenter zero and M the identity on 'initialization', and otherwise
\* prevCenter the container's center before the pass and M the inverse of its
\* own matrix without the translation; absent corrections are 0; the offset
\* is (0,0) on 'initialization' with objectsRelativeToGroup. The commit adds
\* it to the relative position of the children of the target, and moves no
\* other object but the target and its clip path.
OffsetIsAsSpecified ==
  [][ (log' # << >> /\ Passed(log', 1) /\ ReturnOf(log', 1) # undefined) =>
        LET context == log'[1].context
            target == context.target
            init == context.type = "initialization"
            got == ReturnOf(log', 1)
            r == got.result
            prevCenter == IF init THEN Point(0, 0)
                          ELSE getRelativeCenterPoint(Cur, target)
            nextCenter == Point(r.centerX, r.centerY)
            M == IF init THEN <<1, 0, 0, 1, 0, 0>>
                 ELSE Linear(invertTransform(calcOwnMatrix(Cur, target)))
            moved == Point(
              prevCenter.x - nextCenter.x + OrElse(r, "correctionX", 0),
              prevCenter.y - nextCenter.y + OrElse(r, "correctionY", 0))
            through == transform(moved, M, FALSE)
            offset == IF init /\ Has(context, "objectsRelativeToGroup")
                           /\ context.objectsRelativeToGroup
                        THEN Point(0, 0)
                      ELSE Point(through.x + OrElse(r, "relativeCorrectionX", 0),
                                 through.y + OrElse(r, "relativeCorrectionY", 0))
        IN  /\ got.prevCenter = prevCenter
            /\ got.nextCenter = nextCenter
            /\ got.offset = offset
            /\ \A o \in Objects \ {target} :
                 IF group'[o] = target
                   THEN left'[o] = left[o] + offset.x /\ top'[o] = top[o] + offset.y
                 ELSE left'[o] = left[o] /\ top'[o] = top[o]
            /\ \A o \in Clips \ {clipPath[target]} :
                 left'[o] = left[o] /\ top'[o] = top[o]
    ]_vars

\* C17 witness: a commit after the initialization, on a rotated container
\* whose center is not the origin, with both kinds of correction, that moved
\* the child
CorrectedOffsetSeen ==
  /\ log # << >>
  /\ Passed(log, 1)
  /\ ReturnOf(log, 1) # undefined
  /\ log[1].context.type # "initialization"
  /\ angle["A"] = 90
  /\ Has(ReturnOf(log, 1).result, "correctionX")
  /\ Has(ReturnOf(log, 1).result, "relativeCorrectionY")
  /\ ReturnOf(log, 1).prevCenter # zero
  /\ ReturnOf(log, 1).offset.x # 0
  /\ ReturnOf(log, 1).offset.y # 0

\* C17 witness of the exception: an initialization with objectsRelativeToGroup
\* whose result would otherwise move the children
RelativeInitializationSeen ==
  /\ log # << >>
  /\ log[1].context.type = "initialization"
  /\ Has(log[1].context, "objectsRelativeToGroup")
  /\ ReturnOf(log, 1) # undefined
  /\ ReturnOf(log, 1).nextCenter # zero
  /\ ReturnOf(log, 1).offset = zero

\* C18: when a call returns, the context it was given reads as it did when
\* the call was made, its path included.
ContextIsLeftAsPassed ==
  \A i \in Entries(log) :
    Passed(log, log[i].pass) =>
      log[IndexOf(log, log[i].pass, "_prevLayoutStrategy")].context = log[i].context

\* C18, the reuse: two calls made with one context see the same path
ReusedContextHasSamePath ==
  \A i, j \in Entries(log) :
    (/\ log[i].caller = 0 /\ log[j].caller = 0
     /\ Has(log[i].context, "path") /\ Has(log[j].context, "path")) =>
      log[j].context.path = log[i].context.path

\* the part of C18 that holds: a context given without a path is left as it
\* was, and so are the fields other than the path of every context
ContextFieldsAreLeftAsPassed ==
  \A i \in Entries(log) :
    Passed(log, log[i].pass) =>
      LET after == log[IndexOf(log, log[i].pass, "_prevLayoutStrategy")].context
      IN  /\ DOMAIN after = DOMAIN log[i].context
          /\ \A f \in DOMAIN after \ {"path"} : after[f] = log[i].context[f]

\* the calls made on the manager of pass i's container while pass i runs
Within(l, i) ==
  {j \in Entries(l) :
     /\ l[j].manager = l[i].manager
     /\ j > i
     /\ j < IndexOf(l, l[i].pass, "_prevLayoutStrategy")}

\* C19: a call made on the same manager while a pass runs finds
\* _firstLayoutDone as the pass found it if it is made before the post-layout
\* hook (so, in an initialization pass, a call of another type is dropped),
\* and finds it true if it is made from the post-layout hook or later, where
\* it is not dropped and has, as prevStrategy, the strategy recorded before
\* the pass began; the pass records its own strategy after all of them.
BookkeepingOrder ==
  \A i \in Entries(log) :
    Passed(log, log[i].pass) =>
      /\ \A j \in Within(log, i) :
           IF j < IndexOf(log, log[i].pass, "onAfterLayout")
             THEN /\ log[j]._firstLayoutDone = log[i]._firstLayoutDone
                  /\ (~log[i]._firstLayoutDone /\ log[j].context.type # "initialization")
                       => Kinds(log, log[j].pass) = <<"performLayout">>
           ELSE /\ log[j]._firstLayoutDone
                /\ Passed(log, log[j].pass)
                /\ log[j]._prevLayoutStrategy = log[i]._prevLayoutStrategy
                /\ log[IndexOf(log, log[j].pass, "onBeforeLayout")].context.prevStrategy
                     = log[i]._prevLayoutStrategy
      /\ (\A k \in Entries(log) : k > i => log[k].manager # log[i].manager
                                            \/ k \in Within(log, i)) =>
           _prevLayoutStrategy[log[i].manager] =
             log[IndexOf(log, log[i].pass, "_prevLayoutStrategy")].strategy

\* C19 witness: a pass asked for from the post-layout hook of a pass that runs
\* with a replaced strategy: it is not dropped and sees the strategy of the
\* pass before
ReentrantAfterHookSeen ==
  \E i \in Entries(log) : \E j \in Within(log, i) :
    /\ j > IndexOf(log, log[i].pass, "onAfterLayout")
    /\ j < IndexOf(log, log[i].pass, "layout")
    /\ Passed(log, log[j].pass)
    /\ log[j]._prevLayoutStrategy # none
    /\ log[j]._prevLayoutStrategy # log[i].strategy

\* C19 witness of the other half: a call from the pre-layout hook of the
\* initialization pass, dropped
ReentrantBeforeHookDropped ==
  \E i \in Entries(log) : \E j \in Within(log, i) :
    /\ ~log[i]._firstLayoutDone
    /\ j < IndexOf(log, log[i].pass, "layout:before")
    /\ Kinds(log, log[j].pass) = <<"performLayout">>
    /\ Passed(log, log[i].pass)

\* C19 witness of the first layout: a call from the post-layout hook of the
\* initialization pass, not dropped
ReentrantAfterFirstLayout ==
  \E i \in Entries(log) : \E j \in Within(log, i) :
    /\ ~log[i]._firstLayoutDone
    /\ j > IndexOf(log, log[i].pass, "onAfterLayout")
    /\ log[j].context.type = "imperative"
    /\ Passed(log, log[j].pass)

\* the call at entry r of the log and the calls made, directly or through
\* further bubbling, while it runs
Cascade(l, r) ==
  {r} \cup {j \in Entries(l) :
              /\ j > r
              /\ j < IndexOf(l, l[r].pass, "_prevLayoutStrategy")}

\* the call at entry j was dropped at the gate
Dropped(l, j) == Kinds(l, l[j].pass) = <<"performLayout">>

\* C20: without hooks that ask for a layout, every call of performLayout
\* returns, and the calls it causes form one chain up the ancestors of its
\* target: each manager is called at most once, on its own container, by the
\* pass of the container it holds, and a call makes no further call exactly
\* when it was dropped at the gate, its container has no group, or that group
\* has no layout manager.
CascadeClimbsAncestorsOnce ==
  \A r \in Entries(log) :
    log[r].caller = 0 =>
      LET D == Cascade(log, r)
      IN  /\ \A j \in D :
                LET t == log[j].context.target
                    calls == Callees(log, log[j].pass)
                IN  /\ Dropped(log, j)
                         \/ IndexOf(log, log[j].pass, "_prevLayoutStrategy") > j
                    /\ log[j].manager = t
                    /\ t \in chain(Cur, log[r].context.target)
                    /\ layoutManager[t]
                    /\ j # r => \E k \in D : /\ k < j
                                             /\ log[j].caller = log[k].pass
                                             /\ group[log[k].context.target] = t
                    /\ calls \subseteq D
                    /\ Cardinality(calls) <= 1
                    /\ calls = {} <=> \/ Dropped(log, j)
                                      \/ group[t] = none
                                      \/ ~layoutManager[group[t]]
          /\ \A j, k \in D : log[j].manager = log[k].manager => j = k
          /\ Cardinality(D) <= Cardinality(chain(Cur, log[r].context.target))

\* C20 witness: a call on A climbs to B and to C, where it stops because C has
\* no group
CascadeReachedRoot ==
  \E r \in Entries(log) :
    /\ log[r].caller = 0
    /\ log[r].manager = "A"
    /\ {log[j].manager : j \in Cascade(log, r)} = {"A", "B", "C"}
    /\ \A j \in Cascade(log, r) : ~Dropped(log, j)

\* C20 witness: the climb stops at an ancestor whose manager drops the request
CascadeStoppedAtGate ==
  \E r \in Entries(log) : \E j \in Cascade(log, r) :
    /\ log[r].caller = 0
    /\ j # r
    /\ Dropped(log, j)
    /\ group[log[j].context.target] # none
    /\ layoutManager[group[log[j].context.target]]

\* C20 witness: the climb stops below a group that has no layout manager
CascadeStoppedWithoutManager ==
  \E r \in Entries(log) : \E j \in Cascade(log, r) :
    /\ log[r].caller = 0
    /\ j # r
    /\ ~Dropped(log, j)
    /\ group[log[j].context.target] # none
    /\ ~layoutManager[group[log[j].context.target]]

====
